---- MODULE Spec2Model ----
(***************************************************************************)
(* Emotional text-to-speech utility.                                       *)
(*                                                                         *)
(*   Spec     one call of create_emotional_tts (TTS/CTTS.py): model load,  *)
(*            synthesis into a temporary file, the emotion branch (pitch   *)
(*            shift, conditional time stretch, gain), clamp, write,        *)
(*            cleanup.                                                     *)
(*            A finished call may be repeated once with another           *)
(*            speaker_gender while the libraries answer as before.         *)
(*   GenSpec  the Generate button of the desktop form (TTS/BTTS_gui.py):   *)
(*            on_generate on the UI thread and the _generate_thread        *)
(*            workers it starts.  The function the workers call is         *)
(*            imported from elsewhere; here it returns or raises.          *)
(*   GenFairSpec  GenSpec with every started worker thread kept running.   *)
(*   ProbeSpec  the model combobox of the form: on_model_choice_changed,   *)
(*            the _populate_speakers_thread workers and the root.after     *)
(*            callbacks.  The two kinds of worker share only the status    *)
(*            line, which neither reads.                                   *)
(*   LoadSpec  one call of load_speaker_genders (TTS/CTTS.py) on a file of *)
(*            a few lines, followed by the look-ups of the console entry   *)
(*            point in the table it returned.                              *)
(*                                                                         *)
(* Numbers.  Python floats are modelled in fixed point: a sample value v   *)
(* stands for v / Unit, a gain g for g / 100, global_speed s for s / 100   *)
(* and a time-stretch rate r for r / 1000 (factor in tenths times speed in *)
(* hundredths).  All values used are exact at these resolutions.           *)
(***************************************************************************)
EXTENDS Integers, Sequences, FiniteSets, TLC

VARIABLES
    \* ---- create_emotional_tts --------------------------------------------
    pc,             \* position in create_emotional_tts
    emotion,        \* argument: the label, a sequence of characters
    global_speed,   \* argument: speed multiplier, in hundredths
    speaker_gender, \* argument: advisory gender string
    tts_instance,   \* argument: TRUE when a model instance is passed in
    audio,          \* local: the waveform buffer
    sr,             \* local: the sample rate librosa.load returned
    loaded,         \* history: the buffer as librosa.load returned it
    ops,            \* history: the DSP operations applied, in order
    failed,         \* history: the DSP stages that raised
    temp_created,   \* history: NamedTemporaryFile has run
    temp_exists,    \* the temporary file is on disk
    output_file,    \* argument: the path to write
    written,        \* what sf.write was handed: [done, path, data]
    result,         \* "none" | "returned" | "raised"
    raisedBy,       \* the stage whose exception left the function
    retval,         \* the value returned
    logged,         \* history: the gender written to the log at line 78
    run,            \* 1 for a call, 2 for the call repeated with another gender
    env,            \* history: what the libraries answered during the first call
    first,          \* history: what the first call produced
    \* ---- desktop form ----------------------------------------------------
    form,           \* the Tk variables on_generate reads
    btn_state,      \* generate_btn["state"]
    status_var,     \* the status line: [text, by] of the last set_status
    statuses,       \* history: the status texts each worker has set
    gpc,            \* position of each generation worker
    gargs,          \* the arguments each worker was started with
    tb,             \* local of each worker: the primary attempt's traceback
    calls,          \* history: the create_emotional_tts calls of each worker
    dialogs,        \* history: the message boxes shown, in order
    clicks,         \* history: Generate clicks handled so far
    direct,         \* history: UI writes executed by a worker thread itself
    \* ---- speaker probing -------------------------------------------------
    model_choice,   \* model_choice_var, the selection of the model combobox
    custom_entry,   \* model_custom_entry["state"]
    speaker_cb,     \* the speaker combobox: [values, state]
    speaker_var,    \* the selected speaker
    ppc,            \* position of each probe worker
    pmodel,         \* the model name each probe worker was started with
    after_queue,    \* callbacks handed to root.after(0, ...), oldest first
    selections,     \* history: selections handled so far
    \* ---- load_speaker_genders -------------------------------------------
    lpc,            \* position in load_speaker_genders
    file,           \* the speaker-gender file: [mode, lines]
    li,             \* lines of the file consumed so far (enumerate's i)
    genders,        \* local: the table being filled
    lfailed,        \* history: "none" | "missing" | "open" | "read"
    lresult,        \* "none" | "returned" | "raised"
    genders_map,    \* the table returned to the entry point
    looked          \* history: the last look-up, [sp, g]

ttsVars == <<pc, emotion, global_speed, speaker_gender, tts_instance,
             output_file, audio, sr, loaded, ops, failed, temp_created, temp_exists, written, result,
             raisedBy, retval, logged, run, env, first>>
guiVars == <<form, btn_state, status_var, statuses, gpc, gargs, tb, calls, dialogs,
             clicks, direct>>
probeVars == <<model_choice, custom_entry, speaker_cb, speaker_var, ppc, pmodel,
               after_queue, selections>>
loadVars == <<lpc, file, li, genders, lfailed, lresult, genders_map, looked>>
vars == <<ttsVars, guiVars, probeVars, loadVars>>

(***************************************************************************)
(* Bounds of the model.                                                    *)
(***************************************************************************)
SampleRate == 2     \* samples per second of the synthesized file
MaxLen == 3         \* longest synthesized buffer, in samples
MaxGen == 2         \* Generate clicks that start a worker
MaxProbe == 2       \* selections made in the model combobox
MaxLines == 3       \* longest speaker-gender file, in lines

Unit == 100 * 100   \* the sample value 1.0

(***************************************************************************)
(* Characters and str.lower().                                             *)
(***************************************************************************)
Lowers == <<"a","b","c","d","e","f","g","h","i","j","k","l","m",
            "n","o","p","q","r","s","t","u","v","w","x","y","z">>
Uppers == <<"A","B","C","D","E","F","G","H","I","J","K","L","M",
            "N","O","P","Q","R","S","T","U","V","W","X","Y","Z">>

LowerChar(c) ==
    IF \E i \in 1..26 : Uppers[i] = c
    THEN Lowers[CHOOSE i \in 1..26 : Uppers[i] = c]
    ELSE c

UpperChar(c) ==
    IF \E i \in 1..26 : Lowers[i] = c
    THEN Uppers[CHOOSE i \in 1..26 : Lowers[i] = c]
    ELSE c

\* a label compared without lowering it
LowerSkipped(s) == s

Lower(s) == [i \in 1..Len(s) |-> LowerChar(s[i])]
Upper(s) == [i \in 1..Len(s) |-> UpperChar(s[i])]
Capitalize(s) == [i \in 1..Len(s) |-> IF i = 1 THEN UpperChar(s[i]) ELSE LowerChar(s[i])]

L_sad     == <<"s","a","d">>
L_happy   == <<"h","a","p","p","y">>
L_angry   == <<"a","n","g","r","y">>
L_calm    == <<"c","a","l","m">>
L_excited == <<"e","x","c","i","t","e","d">>
L_whisper == <<"w","h","i","s","p","e","r">>
L_neutral == <<"n","e","u","t","r","a","l">>
L_furious == <<"f","u","r","i","o","u","s">>
L_unknown_label == <<"u","n","k","n","o","w","n","_","l","a","b","e","l">>
L_sadly   == <<"s","a","d","l","y">>

available_emotions == <<L_sad, L_happy, L_angry, L_calm, L_excited, L_whisper, L_neutral>>

\* The labels a caller passes: every listed emotion in three letter cases,
\* and labels that are not listed.
Labels ==
    UNION {{available_emotions[i], Capitalize(available_emotions[i]), Upper(available_emotions[i])}
             : i \in 1..Len(available_emotions)}
    \cup {L_furious, L_unknown_label, L_sadly, Capitalize(L_sadly), <<>>}

\* global_speed values, in hundredths: non-positive ones, 1.0, and for each
\* branch a value that brings factor * global_speed within 0.01 of 1.0.
Speeds == {0 - 100, 0, 50, 77, 83, 90, 100, 125, 143}

Genders == {"none", "female"}

OutputFiles == {"emotional_output.wav", "out.wav"}

\* The waveforms librosa.load hands back: n samples of amplitude v with
\* alternating sign, shorter than, equal to and longer than one second.
Wave(n, v) == [i \in 1..n |-> IF i % 2 = 1 THEN v ELSE 0 - v]
Amplitudes == {0, Unit \div 2, Unit}
Inputs == {Wave(n, v) : n \in 1..MaxLen, v \in Amplitudes}

\* What an effect of the audio library may add to a sample (overshoot).
Ripple == {0, Unit \div 4}

NotWritten == [done |-> FALSE, path |-> "", data |-> <<>>]

(***************************************************************************)
(* The audio library, as create_emotional_tts uses it.                     *)
(***************************************************************************)
Abs(x) == IF x < 0 THEN 0 - x ELSE x

\* round(a / b) as Python rounds (ties to even), for a >= 0 and b > 0
RoundDiv(a, b) ==
    LET q == a \div b
        r == a % b
    IN IF 2 * r > b \/ (2 * r = b /\ q % 2 = 1) THEN q + 1 ELSE q

\* librosa.effects.pitch_shift: a buffer of the same length; the samples
\* are new (here: the old ones displaced by d).
PitchShift(y, n_steps, d) == [i \in 1..Len(y) |-> y[i] + d]

\* librosa.effects.time_stretch: a buffer of round(len / rate) samples,
\* rate in thousandths (here: the nearest source sample, displaced by d).
StretchLen(n, rate) == RoundDiv(n * 1000, rate)
TimeStretch(y, rate, d) ==
    [i \in 1..StretchLen(Len(y), rate) |->
        y[(((i - 1) * Len(y)) \div StretchLen(Len(y), rate)) + 1] + d]

\* audio * g, g in hundredths
Scale(y, g) == [i \in 1..Len(y) |-> (y[i] * g) \div 100]

\* a clip that forgets the lower limit
ClipUpperOnly(y) == [i \in 1..Len(y) |-> IF y[i] > Unit THEN Unit ELSE y[i]]

\* np.clip(audio, -1.0, 1.0)
Clip(y) == [i \in 1..Len(y) |->
              IF y[i] > Unit THEN Unit ELSE IF y[i] < 0 - Unit THEN 0 - Unit ELSE y[i]]

(***************************************************************************)
(* The emotion branches of create_emotional_tts.                           *)
(***************************************************************************)
IsPrefix(p, s) == Len(p) <= Len(s) /\ \A i \in 1..Len(p) : s[i] = p[i]

\* a chain that tests emotion.lower().startswith(name)
BranchByPrefix(e) ==
    LET l == Lower(e)
    IN IF IsPrefix(L_sad, l) THEN "sad"
       ELSE IF IsPrefix(L_happy, l) THEN "happy"
       ELSE IF IsPrefix(L_angry, l) THEN "angry"
       ELSE IF IsPrefix(L_calm, l) THEN "calm"
       ELSE IF IsPrefix(L_excited, l) THEN "excited"
       ELSE IF IsPrefix(L_whisper, l) THEN "whisper"
       ELSE "neutral"

\* the if / elif chain on emotion.lower()
Branch(e) ==
    LET l == Lower(e)
    IN IF l = L_sad THEN "sad"
       ELSE IF l = L_happy THEN "happy"
       ELSE IF l = L_angry THEN "angry"
       ELSE IF l = L_calm THEN "calm"
       ELSE IF l = L_excited THEN "excited"
       ELSE IF l = L_whisper THEN "whisper"
       ELSE "neutral"

\* n_steps of the branch's pitch_shift call
NSteps(b) ==
    CASE b = "sad" -> 0 - 3
      [] b = "happy" -> 2
      [] b = "angry" -> 0 - 2
      [] b = "calm" -> 0 - 1
      [] b = "excited" -> 3
      [] b = "whisper" -> 0 - 1

\* the factor of `rate = factor * float(global_speed)`, in tenths
RateFactor(b) ==
    CASE b = "sad" -> 7
      [] b = "happy" -> 12
      [] b = "angry" -> 11
      [] b = "calm" -> 8
      [] b = "excited" -> 13

\* a gain that a female speaker is spared
GainByGender(b) ==
    IF speaker_gender = "female" THEN 100
    ELSE CASE b = "sad" -> 80
           [] b = "happy" -> 110
           [] b = "angry" -> 120
           [] b = "calm" -> 90
           [] b = "excited" -> 115
           [] b = "whisper" -> 50

\* the factor of `audio = audio * gain`, in hundredths
Gain(b) ==
    CASE b = "sad" -> 80
      [] b = "happy" -> 110
      [] b = "angry" -> 120
      [] b = "calm" -> 90
      [] b = "excited" -> 115
      [] b = "whisper" -> 50

\* the branches whose pitch_shift call stands inside try / except
PitchGuarded(b) == b = "sad"

\* the branches that have a time-stretch block
HasStretch(b) == b \in {"sad", "happy", "angry", "calm", "excited"}

\* rate = factor * float(global_speed), in thousandths
Rate(b, speed) == RateFactor(b) * speed

\* a guard that lets a buffer of exactly one second through
StretchGuardAtLeast(y, rate_hz, rate) ==
    /\ Len(y) >= rate_hz
    /\ Abs(rate - 1000) > 10
    /\ rate > 0

\* a guard that lets a rate of any sign through
StretchGuardAnySign(y, rate_hz, rate) ==
    /\ Len(y) > rate_hz
    /\ Abs(rate - 1000) > 10

\* len(audio) > sr and abs(rate - 1.0) > 0.01 and rate > 0
StretchGuard(y, rate_hz, rate) ==
    /\ Len(y) > rate_hz
    /\ Abs(rate - 1000) > 10
    /\ rate > 0

(***************************************************************************)
(* create_emotional_tts, one action per block of the function.             *)
(***************************************************************************)
\* __init__, lines 60-88: the first option is preselected, the manual
\* entry and the speaker list are disabled, the speaker list is empty
(***************************************************************************)
(* load_speaker_genders: the text operations it uses and its inputs.       *)
(***************************************************************************)
Whitespace == {" ", "\t", "\n", "\r"}

\* str.strip()
Strip(s) ==
    LET keep == {i \in 1..Len(s) : s[i] \notin Whitespace}
    IN IF keep = {} THEN <<>>
       ELSE SubSeq(s, CHOOSE i \in keep : \A j \in keep : i <= j,
                      CHOOSE i \in keep : \A j \in keep : i >= j)

\* str.split(sep)
RECURSIVE Split(_, _)
Split(s, sep) ==
    IF \A i \in 1..Len(s) : s[i] # sep THEN <<s>>
    ELSE LET k == CHOOSE i \in 1..Len(s) :
                      s[i] = sep /\ \A j \in 1..(i - 1) : s[j] # sep
         IN <<SubSeq(s, 1, k - 1)>> \o Split(SubSeq(s, k + 1, Len(s)), sep)

\* the lines a file is made of; beside its text each line carries what it
\* stands for (kind, speaker id in upper case, gender), which the function
\* never reads
Id_P225 == <<"P","2","2","5">>
Id_P226 == <<"P","2","2","6">>
Id_P999 == <<"P","9","9","9">>
G_F == <<"F">>
G_M == <<"M">>
Line(t, k, i, g) == [text |-> t, kind |-> k, id |-> i, gender |-> g]
FileLines ==
    { Line(<<"i","d",",","g","e","n","d","e","r">>, "header", <<>>, <<>>),
      Line(<<"I","D",","," ","G","e","n","d","e","r",",","A","g","e">>, "header", <<>>, <<>>),
      Line(<<"P","2","2","5",",","F">>, "record", Id_P225, G_F),
      Line(<<"p","2","2","5",",","M",",","2","3">>, "record", Id_P225, G_M),
      Line(<<" ","p","2","2","6"," ",","," ","M"," ">>, "record", Id_P226, G_M),
      Line(<<>>, "blank", <<>>, <<>>),
      Line(<<"p","2","2","7">>, "malformed", <<>>, <<>>),
      Line(<<",","F">>, "malformed", <<>>, <<>>) }

RECURSIVE SeqsUpTo(_, _)
SeqsUpTo(S, n) ==
    IF n = 0 THEN {<<>>}
    ELSE LET shorter == SeqsUpTo(S, n - 1)
         IN shorter \cup {Append(q, x) : q \in {r \in shorter : Len(r) = n - 1}, x \in S}

\* a missing or unreadable file has no content to speak of
Files ==
    {[mode |-> "ok", lines |-> ls] : ls \in SeqsUpTo(FileLines, MaxLines)}
    \cup {[mode |-> "missing", lines |-> <<>>], [mode |-> "denied", lines |-> <<>>]}

\* the speaker names looked up, with the id each stands for
SpeakerNames ==
    { [text |-> <<"P","2","2","5">>, id |-> Id_P225],
      [text |-> <<"p","2","2","5">>, id |-> Id_P225],
      [text |-> <<"p","2","2","6"," ">>, id |-> Id_P226],
      [text |-> <<"p","9","9","9">>, id |-> Id_P999] }

\* line 272: the default of genders_map.get
L_unknown == <<"u","n","k","n","o","w","n">>

NoLookup == [sp |-> [text |-> <<>>, id |-> <<>>], g |-> <<>>]

\* the loader before it is called
LoadIdle ==
    /\ lpc = "unused"
    /\ file = [mode |-> "missing", lines |-> <<>>]
    /\ li = 0
    /\ genders = <<>>
    /\ lfailed = "none"
    /\ lresult = "none"
    /\ genders_map = <<>>
    /\ looked = NoLookup

\* the libraries have not been asked yet
NoEnv == [asked |-> {},
          model |-> FALSE,
          synth |-> [outcome |-> "none", y |-> <<>>],
          pitch |-> [ok |-> FALSE, d |-> 0],
          stretch |-> [ok |-> FALSE, d |-> 0],
          write |-> FALSE]

\* no call has finished yet
NoRun == [ops |-> <<>>, written |-> NotWritten, retval |-> "", result |-> "none",
          speaker_gender |-> "", table |-> <<>>]

\* during the first call the answer of a library is noted; during the
\* repeated call a library that was asked the first time answers the same
Replay(stage, answer) ==
    /\ (run = 2 /\ stage \in env.asked) => env[stage] = answer
    /\ env' = IF run = 1
              THEN [env EXCEPT ![stage] = answer, !.asked = @ \cup {stage}]
              ELSE env

ProbeInit ==
    /\ model_choice = "C3Imaging/child_tts_fastpitch (default child)"
    /\ custom_entry = "disabled"
    /\ speaker_cb = [values |-> <<>>, state |-> "disabled"]
    /\ speaker_var = ""
    /\ ppc = <<>>
    /\ pmodel = <<>>
    /\ after_queue = <<>>
    /\ selections = 0

\* the form before any Generate click
GenIdle ==
    /\ form = [imported |-> FALSE]
    /\ btn_state = "normal"
    /\ status_var = [text |-> "Ready", by |-> 0]
    /\ statuses = <<>>
    /\ clicks = 0
    /\ gpc = <<>>
    /\ gargs = <<>>
    /\ tb = <<>>
    /\ calls = <<>>
    /\ dialogs = <<>>
    /\ direct = {}

Init ==
    /\ pc = "start"
    /\ emotion \in Labels
    /\ global_speed \in Speeds
    /\ speaker_gender \in Genders
    /\ tts_instance \in BOOLEAN
    /\ output_file \in OutputFiles
    /\ audio = <<>>
    /\ sr = 0
    /\ loaded = <<>>
    /\ ops = <<>>
    /\ failed = {}
    /\ temp_created = FALSE
    /\ temp_exists = FALSE
    /\ written = NotWritten
    /\ result = "none"
    /\ raisedBy = "none"
    /\ retval = ""
    /\ logged = "nothing"
    /\ run = 1
    /\ env = NoEnv
    /\ first = NoRun
    /\ GenIdle
    /\ ProbeInit
    /\ LoadIdle

\* an exception leaves the function
Raise(stage) ==
    /\ pc' = "done"
    /\ result' = "raised"
    /\ raisedBy' = stage

\* lines 62-70: reuse tts_instance, or construct the model, which may raise
LoadModel ==
    /\ pc = "start"
    /\ \E ok \in {tts_instance, TRUE} :
         /\ Replay("model", ok)
         /\ IF ok
            THEN pc' = "tempfile" /\ UNCHANGED <<result, raisedBy>>
            ELSE Raise("model")
    /\ UNCHANGED <<emotion, global_speed, speaker_gender, tts_instance, output_file,
                   audio, sr, loaded, ops, failed, temp_created, temp_exists,
                   written, retval, logged, run, first>>
    /\ UNCHANGED <<guiVars, probeVars, loadVars>>

\* lines 72-83: pick the speaker, log it with speaker_gender, create and
\* close the temporary file
MakeTempFile ==
    /\ pc = "tempfile"
    /\ logged' = speaker_gender
    /\ temp_created' = TRUE
    /\ temp_exists' = TRUE
    /\ pc' = "synth"
    /\ UNCHANGED <<emotion, global_speed, speaker_gender, tts_instance, output_file,
                   audio, sr, loaded, ops, failed, written, result, raisedBy, retval,
                   run, env, first>>
    /\ UNCHANGED <<guiVars, probeVars, loadVars>>

\* lines 84-106: tts_to_file (again without speaker on TypeError), then
\* librosa.load, which hands back a one-dimensional buffer (mono=True is its
\* default, so the averaging of line 106 never applies); on any exception
\* the temporary file is removed and the exception re-raised
Synthesize ==
    /\ pc = "synth"
    /\ \E outcome \in {"ok", "synth", "load"} :
         IF outcome = "ok"
         THEN /\ \E y \in Inputs :
                   /\ Replay("synth", [outcome |-> outcome, y |-> y])
                   /\ audio' = y /\ loaded' = y
              /\ sr' = SampleRate
              /\ pc' = "pitch"
              /\ UNCHANGED <<temp_exists, result, raisedBy>>
         ELSE /\ Replay("synth", [outcome |-> outcome, y |-> <<>>])
              /\ temp_exists' = FALSE
              /\ Raise(outcome)
              /\ UNCHANGED <<audio, loaded, sr>>
    /\ UNCHANGED <<emotion, global_speed, speaker_gender, tts_instance, output_file,
                   ops, failed, temp_created, written, retval, logged, run, first>>
    /\ UNCHANGED <<guiVars, probeVars, loadVars>>

\* the pitch_shift call of the branch (lines 111-114, 128, 140, 152, 164,
\* 176); the else branch has none (line 181)
PitchStage ==
    /\ pc = "pitch"
    /\ LET b == Branch(emotion)
           next == IF HasStretch(b) THEN "stretch" ELSE "gain"
       IN IF b = "neutral"
          THEN /\ pc' = "clamp"
               /\ UNCHANGED <<audio, ops, failed, result, raisedBy, env>>
          ELSE \E ok \in BOOLEAN, d \in Ripple :
                 /\ Replay("pitch", [ok |-> ok, d |-> d])
                 /\ IF ok
                    THEN /\ audio' = PitchShift(audio, NSteps(b), d)
                         /\ ops' = Append(ops, [op |-> "pitch_shift", arg |-> NSteps(b)])
                         /\ pc' = next
                         /\ UNCHANGED <<failed, result, raisedBy>>
                    ELSE /\ d = 0
                         /\ failed' = failed \cup {"pitch_shift"}
                         /\ IF PitchGuarded(b)
                            THEN pc' = next /\ UNCHANGED <<result, raisedBy>>
                            ELSE Raise("pitch_shift")
                         /\ UNCHANGED <<audio, ops>>
    /\ UNCHANGED <<emotion, global_speed, speaker_gender, tts_instance, output_file,
                   sr, loaded, temp_created, temp_exists, written, retval, logged,
                   run, first>>
    /\ UNCHANGED <<guiVars, probeVars, loadVars>>

\* the time-stretch block of the branch (lines 116-122, 129-134, 141-146,
\* 153-158, 165-170); librosa raises for a rate that is not positive
StretchStage ==
    /\ pc = "stretch"
    /\ LET b == Branch(emotion)
           rate == Rate(b, global_speed)
       IN IF StretchGuard(audio, sr, rate)
          THEN \E ok \in BOOLEAN, d \in Ripple :
                 /\ ok => rate > 0
                 /\ Replay("stretch", [ok |-> ok, d |-> d])
                 /\ IF ok
                    THEN /\ audio' = TimeStretch(audio, rate, d)
                         /\ ops' = Append(ops, [op |-> "time_stretch", arg |-> rate])
                         /\ UNCHANGED failed
                    ELSE /\ d = 0
                         /\ failed' = failed \cup {"time_stretch"}
                         /\ UNCHANGED <<audio, ops>>
          ELSE UNCHANGED <<audio, ops, failed, env>>
    /\ pc' = "gain"
    /\ UNCHANGED <<emotion, global_speed, speaker_gender, tts_instance, output_file,
                   sr, loaded, temp_created, temp_exists, written, result, raisedBy,
                   retval, logged, run, first>>
    /\ UNCHANGED <<guiVars, probeVars, loadVars>>

\* audio = audio * gain (lines 123, 135, 147, 159, 171, 177)
GainStage ==
    /\ pc = "gain"
    /\ audio' = Scale(audio, Gain(Branch(emotion)))
    /\ ops' = Append(ops, [op |-> "gain", arg |-> Gain(Branch(emotion))])
    /\ pc' = "clamp"
    /\ UNCHANGED <<emotion, global_speed, speaker_gender, tts_instance, output_file,
                   sr, loaded, failed, temp_created, temp_exists, written, result,
                   raisedBy, retval, logged, run, env, first>>
    /\ UNCHANGED <<guiVars, probeVars, loadVars>>

\* lines 183-185: cast to float32 (exact at the model's resolution), clip
Clamp ==
    /\ pc = "clamp"
    /\ audio' = Clip(audio)
    /\ pc' = "write"
    /\ UNCHANGED <<emotion, global_speed, speaker_gender, tts_instance, output_file,
                   sr, loaded, ops, failed, temp_created, temp_exists, written,
                   result, raisedBy, retval, logged, run, env, first>>
    /\ UNCHANGED <<guiVars, probeVars, loadVars>>

\* lines 187-191: sf.write (again without subtype on TypeError); any other
\* exception leaves the function
WriteOutput ==
    /\ pc = "write"
    /\ \E ok \in BOOLEAN :
         /\ Replay("write", ok)
         /\ IF ok
            THEN /\ written' = [done |-> TRUE, path |-> output_file, data |-> audio]
                 /\ pc' = "cleanup"
                 /\ UNCHANGED <<result, raisedBy>>
            ELSE /\ Raise("write")
                 /\ UNCHANGED written
    /\ UNCHANGED <<emotion, global_speed, speaker_gender, tts_instance, output_file,
                   audio, sr, loaded, ops, failed, temp_created, temp_exists, retval,
                   logged, run, first>>
    /\ UNCHANGED <<guiVars, probeVars, loadVars>>

\* a return of the parameter's default instead of the argument
CleanupAndReturnDefault ==
    /\ pc = "cleanup"
    /\ temp_exists' = FALSE
    /\ result' = "returned"
    /\ retval' = "emotional_output.wav"
    /\ pc' = "done"
    /\ UNCHANGED <<emotion, global_speed, speaker_gender, tts_instance, output_file,
                   audio, sr, loaded, ops, failed, temp_created, written, raisedBy,
                   logged, run, env, first>>
    /\ UNCHANGED <<guiVars, probeVars, loadVars>>

\* lines 193-202: remove the temporary file, return output_file
CleanupAndReturn ==
    /\ pc = "cleanup"
    /\ temp_exists' = FALSE
    /\ result' = "returned"
    /\ retval' = output_file
    /\ pc' = "done"
    /\ UNCHANGED <<emotion, global_speed, speaker_gender, tts_instance, output_file,
                   audio, sr, loaded, ops, failed, temp_created, written, raisedBy,
                   logged, run, env, first>>
    /\ UNCHANGED <<guiVars, probeVars, loadVars>>

\* the tables the entry point may hold while the function runs
GenderTables == {<<>>, Id_P225 :> G_F}

\* the caller repeats a finished call with the same arguments except
\* speaker_gender, with other content in its speaker-gender table, or both
\* (the call of lines 317-325 made again)
CallAgain ==
    /\ pc = "done"
    /\ run = 1
    /\ run' = 2
    /\ first' = [ops |-> ops, written |-> written, retval |-> retval,
                 result |-> result, speaker_gender |-> speaker_gender,
                 table |-> genders_map]
    /\ \E g \in Genders, t \in GenderTables :
         /\ g # speaker_gender \/ t # genders_map
         /\ speaker_gender' = g
         /\ genders_map' = t
    /\ pc' = "start"
    /\ audio' = <<>>
    /\ sr' = 0
    /\ loaded' = <<>>
    /\ ops' = <<>>
    /\ failed' = {}
    /\ temp_created' = FALSE
    /\ temp_exists' = FALSE
    /\ written' = NotWritten
    /\ result' = "none"
    /\ raisedBy' = "none"
    /\ retval' = ""
    /\ logged' = "nothing"
    /\ UNCHANGED <<emotion, global_speed, tts_instance, output_file, env>>
    /\ UNCHANGED <<lpc, file, li, genders, lfailed, lresult, looked>>
    /\ UNCHANGED <<guiVars, probeVars>>

Next ==
    \/ LoadModel
    \/ MakeTempFile
    \/ Synthesize
    \/ PitchStage
    \/ StretchStage
    \/ GainStage
    \/ Clamp
    \/ WriteOutput
    \/ CleanupAndReturn
    \/ CallAgain

Spec == Init /\ [][Next]_vars

(***************************************************************************)
(* Claims about create_emotional_tts (checked under Spec).                 *)
(***************************************************************************)
\* The table of the specification, section 4.1: pitch in semitones, rate
\* factor in tenths (0: no time-stretch), gain in hundredths.
TableNames == <<L_sad, L_happy, L_angry, L_calm, L_excited, L_whisper>>
Table == <<[pitch |-> 0 - 3, factor |-> 7,  gain |-> 80],
           [pitch |-> 2,     factor |-> 12, gain |-> 110],
           [pitch |-> 0 - 2, factor |-> 11, gain |-> 120],
           [pitch |-> 0 - 1, factor |-> 8,  gain |-> 90],
           [pitch |-> 3,     factor |-> 13, gain |-> 115],
           [pitch |-> 0 - 1, factor |-> 0,  gain |-> 50]>>

\* label e is the lower-case name s in some letter case
SameLabel(e, s) ==
    /\ Len(e) = Len(s)
    /\ \A i \in 1..Len(s) : e[i] = s[i] \/ e[i] = UpperChar(s[i])

Supported(e) == \E k \in 1..Len(TableNames) : SameLabel(e, TableNames[k])

Stretched == \E i \in 1..Len(ops) : ops[i].op = "time_stretch"

\* the effect chain is over and nothing has raised since
EffectsDone == pc \in {"clamp", "write", "cleanup"} \/ (pc = "done" /\ written.done)

InRange(y) == \A i \in 1..Len(y) : y[i] >= 0 - Unit /\ y[i] <= Unit

HardClip(y) == [i \in 1..Len(y) |->
                  IF y[i] > Unit THEN Unit ELSE IF y[i] < 0 - Unit THEN 0 - Unit ELSE y[i]]

\* C1: for a supported label in any letter case, when no stage raised, the
\* operations applied are the pitch shift of the table, then (only if a
\* time-stretch ran) the stretch at factor x global_speed, then the gain of
\* the table; whisper never stretches.
C1_TableApplied ==
    \A k \in 1..Len(TableNames) :
        (SameLabel(emotion, TableNames[k]) /\ EffectsDone /\ failed = {}) =>
            /\ Len(ops) \in {2, 3}
            /\ ops[1] = [op |-> "pitch_shift", arg |-> Table[k].pitch]
            /\ ops[Len(ops)] = [op |-> "gain", arg |-> Table[k].gain]
            /\ Len(ops) = 3 =>
                  /\ Table[k].factor # 0
                  /\ ops[2] = [op |-> "time_stretch",
                               arg |-> Table[k].factor * global_speed]

C1_Witness ==
    /\ pc = "done" /\ result = "returned"
    /\ emotion = Capitalize(L_happy)
    /\ failed = {}
    /\ ops = <<[op |-> "pitch_shift", arg |-> 2],
               [op |-> "time_stretch", arg |-> 1200],
               [op |-> "gain", arg |-> 110]>>

\* C2: for a label that is not a supported one (neutral included) no
\* operation is applied, and the buffer written is the loaded buffer, hard
\* clipped: the same for every such label and every global_speed.
C2_UnknownIsNeutral ==
    ~Supported(emotion) =>
        /\ ops = <<>>
        /\ failed = {}
        /\ EffectsDone /\ pc # "clamp" => audio = HardClip(loaded)
        /\ written.done => written.data = HardClip(loaded)

C2_Witness ==
    /\ pc = "done" /\ result = "returned"
    /\ emotion = L_sadly
    /\ global_speed = 143
    /\ Len(loaded) > sr
    /\ written.done /\ written.data = loaded

\* C3: a time-stretch runs only for a stretching emotion, on a buffer longer
\* than one second, at a rate more than 0.01 away from 1.0; without one the
\* buffer keeps the length it was loaded with.
C3_StretchGuarded ==
    /\ Stretched =>
          /\ Len(loaded) > sr
          /\ \E k \in 1..Len(TableNames) :
                /\ SameLabel(emotion, TableNames[k])
                /\ Table[k].factor # 0
                /\ Abs(Table[k].factor * global_speed - 1000) > 10
    /\ ~Stretched => Len(audio) = Len(loaded)
    /\ (~Stretched /\ written.done) => Len(written.data) = Len(loaded)

\* a buffer longer than one second, rate 1.1 x 0.9 = 0.99: not stretched
C3_Witness ==
    /\ pc = "done" /\ result = "returned"
    /\ emotion = Upper(L_angry)
    /\ global_speed = 90
    /\ Len(loaded) > sr
    /\ failed = {}
    /\ ~Stretched
    /\ Len(written.data) = Len(loaded)

\* C4: every sample handed to the writer lies in [-1, 1].
C4_WrittenInRange ==
    /\ pc = "write" => InRange(audio)
    /\ written.done => InRange(written.data) /\ written.data = audio

\* gain 1.2 on full-scale samples: both ends clipped
C4_Witness ==
    /\ written.done
    /\ Branch(emotion) = "angry"
    /\ Len(loaded) >= 2 /\ loaded[1] = Unit /\ loaded[2] = 0 - Unit
    /\ ~Stretched
    /\ written.data[1] = Unit /\ written.data[2] = 0 - Unit

\* C5: the function never raises because a DSP stage (pitch-shift or
\* time-stretch) raised.
C5_StageErrorsSkipped == raisedBy \notin {"pitch_shift", "time_stretch"}

\* C6: once the function has been left after the temporary file was
\* created, the temporary file is gone.
C6_TempRemoved == (pc = "done" /\ temp_created) => ~temp_exists

(***************************************************************************)
(* The desktop form: on_generate and _generate_thread (BTTS_gui.py).       *)
(* The UI thread handles one event at a time; every worker is a thread of  *)
(* its own and takes one statement per step.                               *)
(***************************************************************************)
OptChild == "C3Imaging/child_tts_fastpitch (default child)"
OptVctk  == "tts_models/en/vctk/vits (multi-speaker)"
OptOther == "Other (enter manually)"
model_options == {OptChild, OptVctk, OptOther}

ChildModel == "C3Imaging/child_tts_fastpitch"
VctkModel  == "tts_models/en/vctk/vits"
None == "None"

\* What the user has put into the form when Generate is pressed (imported:
\* whether create_emotional_tts could be imported, lines 15-19).  The two
\* fields that have a fallback value, speed and output name, are left
\* unusable together.
Forms ==
    {f \in [imported : BOOLEAN,
            text : {"", "Hello"},
            emotion : {"happy"},
            child_mode : BOOLEAN,
            model_choice : model_options,
            model_custom : {"", "my/model"},
            speed : {"1.2", "fast"},
            pitch : {2},
            energy : {150},
            out : {"", "out.wav"}] :
       /\ f.model_choice # OptOther => f.model_custom = ""
       /\ f.out = "" <=> f.speed = "fast"}

TtsIdle ==
    /\ pc = "unused"
    /\ emotion = <<>>
    /\ global_speed = 100
    /\ speaker_gender = "none"
    /\ tts_instance = FALSE
    /\ output_file = ""
    /\ audio = <<>>
    /\ sr = 0
    /\ loaded = <<>>
    /\ ops = <<>>
    /\ failed = {}
    /\ temp_created = FALSE
    /\ temp_exists = FALSE
    /\ written = NotWritten
    /\ result = "none"
    /\ raisedBy = "none"
    /\ retval = ""
    /\ logged = "nothing"
    /\ run = 1
    /\ env = NoEnv
    /\ first = NoRun

GenInit ==
    /\ TtsIdle
    /\ ProbeInit
    /\ LoadIdle
    /\ form \in Forms
    /\ btn_state = "normal"
    /\ status_var = [text |-> "Ready", by |-> 0]
    /\ statuses = <<>>
    /\ gpc = <<>>
    /\ gargs = <<>>
    /\ tb = <<>>
    /\ calls = <<>>
    /\ dialogs = <<>>
    /\ clicks = 0
    /\ direct = {}

\* lines 286-295: the model name of the selection
ResolveModel(f) ==
    IF f.model_choice = OptChild THEN ChildModel
    ELSE IF f.model_choice = OptVctk THEN VctkModel
    ELSE IF f.model_choice = OptOther
         THEN (IF f.model_custom = "" THEN None ELSE f.model_custom)
    ELSE None

\* lines 296-299: float(speed_var.get()), 1.0 when it does not parse
ParseSpeed(t) == IF t = "1.2" THEN 120 ELSE 100

\* line 301: the output name, a time-stamped one when the field is empty
OutOf(t) == IF t = "" THEN "child_output_<time>.wav" ELSE t

\* lines 283-315: the arguments handed to the worker
RequestOf(f) ==
    [text |-> f.text,
     emotion |-> f.emotion,
     out |-> OutOf(f.out),
     model_name |-> ResolveModel(f),
     child_mode |-> f.child_mode,
     global_speed |-> ParseSpeed(f.speed),
     pitch_shift |-> f.pitch,
     energy |-> f.energy]

\* line 342: model_name or (child model if child_mode else vctk)
ChosenModel(a) ==
    IF a.model_name # None THEN a.model_name
    ELSE IF a.child_mode THEN ChildModel ELSE VctkModel

\* lines 346-362: the arguments of the primary call
PrimaryCall(a) ==
    [text |-> a.text, emotion |-> a.emotion, out |-> a.out,
     global_speed |-> a.global_speed, model_name |-> ChosenModel(a),
     child_mode |-> a.child_mode, pitch_shift |-> a.pitch_shift,
     energy |-> a.energy]

\* a fallback that passes the caller's child_mode on
FallbackCallKeepsChildMode(a) ==
    [text |-> a.text, emotion |-> a.emotion, out |-> a.out,
     global_speed |-> a.global_speed, model_name |-> VctkModel,
     child_mode |-> a.child_mode, pitch_shift |-> a.pitch_shift,
     energy |-> a.energy]

\* lines 370-382: the arguments of the fallback call
FallbackCall(a) ==
    [text |-> a.text, emotion |-> a.emotion, out |-> a.out,
     global_speed |-> a.global_speed, model_name |-> VctkModel,
     child_mode |-> TRUE, pitch_shift |-> a.pitch_shift,
     energy |-> a.energy]

\* traceback.format_exc() while the exception of a call is handled: which
\* call raised, and for which model
NoTraceback == [call |-> "none", model_name |-> ""]
Traceback(which, c) == [call |-> which, model_name |-> c.model_name]

\* a message that shows the last exception only
ErrorDetailLastOnly(w) == <<Traceback("fallback", FallbackCall(gargs[w]))>>

\* line 386: f"Errors:\n{tb}\n{traceback.format_exc()}", the saved
\* traceback and the one of the exception being handled
ErrorDetail(w) == <<tb[w], Traceback("fallback", FallbackCall(gargs[w]))>>

Workers == 1..Len(gpc)
InFlight == {w \in Workers : gpc[w] # "done"}

\* lines 275-335, on the UI thread.  A disabled button delivers no click.
on_generate ==
    /\ btn_state = "normal"
    /\ clicks < MaxGen
    /\ clicks' = clicks + 1
    /\ IF ~form.imported
       THEN /\ dialogs' = Append(dialogs, [title |-> "BTTS import error", by |-> 0, detail |-> <<>>])
            /\ UNCHANGED <<gpc, gargs, tb, calls, statuses>>
       ELSE IF form.text = ""
       THEN /\ dialogs' = Append(dialogs, [title |-> "No text", by |-> 0, detail |-> <<>>])
            /\ UNCHANGED <<gpc, gargs, tb, calls, statuses>>
       ELSE /\ gpc' = Append(gpc, "disable")
            /\ gargs' = Append(gargs, RequestOf(form))
            /\ tb' = Append(tb, NoTraceback)
            /\ calls' = Append(calls, <<>>)
            /\ statuses' = Append(statuses, {})
            /\ UNCHANGED dialogs
    /\ UNCHANGED <<form, btn_state, status_var, direct>>
    /\ UNCHANGED <<ttsVars, probeVars, loadVars>>

\* set_status (lines 202-204) called by worker w: the worker's own thread
\* sets status_var
SetStatus(w, text) ==
    /\ status_var' = [text |-> text, by |-> w]
    /\ statuses' = [statuses EXCEPT ![w] = @ \cup {text}]
    /\ direct' = direct \cup {"status_var"}

\* line 339
GenDisable(w) ==
    /\ w \in DOMAIN gpc
    /\ gpc[w] = "disable"
    /\ btn_state' = "disabled"
    /\ direct' = direct \cup {"generate_btn"}
    /\ gpc' = [gpc EXCEPT ![w] = "starting"]
    /\ UNCHANGED <<form, status_var, statuses, gargs, tb, calls, dialogs, clicks>>
    /\ UNCHANGED <<ttsVars, probeVars, loadVars>>

\* line 340
GenStatusStarting(w) ==
    /\ w \in DOMAIN gpc
    /\ gpc[w] = "starting"
    /\ SetStatus(w, "Starting generation...")
    /\ gpc' = [gpc EXCEPT ![w] = "init"]
    /\ UNCHANGED <<form, btn_state, gargs, tb, calls, dialogs, clicks>>
    /\ UNCHANGED <<ttsVars, probeVars, loadVars>>

\* lines 342-343
GenStatusInit(w) ==
    /\ w \in DOMAIN gpc
    /\ gpc[w] = "init"
    /\ SetStatus(w, "Initializing model")
    /\ gpc' = [gpc EXCEPT ![w] = "primary"]
    /\ UNCHANGED <<form, btn_state, gargs, tb, calls, dialogs, clicks>>
    /\ UNCHANGED <<ttsVars, probeVars, loadVars>>

\* lines 345-367: the primary call; it returns (line 363) or raises
\* (lines 364-367)
GenPrimary(w) ==
    /\ w \in DOMAIN gpc
    /\ gpc[w] = "primary"
    /\ \E ok \in BOOLEAN :
         /\ calls' = [calls EXCEPT ![w] =
                        Append(@, [args |-> PrimaryCall(gargs[w]), raised |-> ~ok])]
         /\ IF ok
            THEN /\ SetStatus(w, "Done. Saved to")
                 /\ gpc' = [gpc EXCEPT ![w] = "finally"]
                 /\ UNCHANGED tb
            ELSE /\ tb' = [tb EXCEPT ![w] = Traceback("primary", PrimaryCall(gargs[w]))]
                 /\ SetStatus(w, "Generation failed: falling back")
                 /\ gpc' = [gpc EXCEPT ![w] = "fallback"]
    /\ UNCHANGED <<form, btn_state, gargs, dialogs, clicks>>
    /\ UNCHANGED <<ttsVars, probeVars, loadVars>>

\* lines 368-385: the fallback call; it returns (line 383) or raises
\* (lines 384-385)
GenFallback(w) ==
    /\ w \in DOMAIN gpc
    /\ gpc[w] = "fallback"
    /\ \E ok \in BOOLEAN :
         /\ calls' = [calls EXCEPT ![w] =
                        Append(@, [args |-> FallbackCall(gargs[w]), raised |-> ~ok])]
         /\ IF ok
            THEN /\ SetStatus(w, "Done with fallback. Saved to")
                 /\ gpc' = [gpc EXCEPT ![w] = "finally"]
            ELSE /\ SetStatus(w, "All generation attempts failed")
                 /\ gpc' = [gpc EXCEPT ![w] = "showerror"]
    /\ UNCHANGED <<form, btn_state, gargs, tb, dialogs, clicks>>
    /\ UNCHANGED <<ttsVars, probeVars, loadVars>>

\* line 386: the message box opens, with both tracebacks
GenShowError(w) ==
    /\ w \in DOMAIN gpc
    /\ gpc[w] = "showerror"
    /\ dialogs' = Append(dialogs, [title |-> "Generation failed", by |-> w,
                                 detail |-> ErrorDetail(w)])
    /\ direct' = direct \cup {"messagebox"}
    /\ gpc' = [gpc EXCEPT ![w] = "dialog_open"]
    /\ UNCHANGED <<form, btn_state, status_var, statuses, gargs, tb, calls, clicks>>
    /\ UNCHANGED <<ttsVars, probeVars, loadVars>>

\* a worker that ends when its message box is closed, as if the button
\* were re-enabled at the end of the try block and not in a finally block
GenDialogClosedAndLeft(w) ==
    /\ w \in DOMAIN gpc
    /\ gpc[w] = "dialog_open"
    /\ gpc' = [gpc EXCEPT ![w] = "done"]
    /\ UNCHANGED <<form, btn_state, status_var, statuses, gargs, tb, calls, dialogs,
                   clicks, direct>>
    /\ UNCHANGED <<ttsVars, probeVars, loadVars>>

\* line 386: showerror returns when the user closes the box
GenDialogClosed(w) ==
    /\ w \in DOMAIN gpc
    /\ gpc[w] = "dialog_open"
    /\ gpc' = [gpc EXCEPT ![w] = "finally"]
    /\ UNCHANGED <<form, btn_state, status_var, statuses, gargs, tb, calls, dialogs,
                   clicks, direct>>
    /\ UNCHANGED <<ttsVars, probeVars, loadVars>>

\* lines 387-388
GenFinally(w) ==
    /\ w \in DOMAIN gpc
    /\ gpc[w] = "finally"
    /\ btn_state' = "normal"
    /\ direct' = direct \cup {"generate_btn"}
    /\ gpc' = [gpc EXCEPT ![w] = "done"]
    /\ UNCHANGED <<form, status_var, statuses, gargs, tb, calls, dialogs, clicks>>
    /\ UNCHANGED <<ttsVars, probeVars, loadVars>>

\* _generate_thread, lines 337-388
GenStep(w) ==
    \/ GenDisable(w)
    \/ GenStatusStarting(w)
    \/ GenStatusInit(w)
    \/ GenPrimary(w)
    \/ GenFallback(w)
    \/ GenShowError(w)
    \/ GenDialogClosed(w)
    \/ GenFinally(w)

GenNext ==
    \/ on_generate
    \/ \E w \in 1..MaxGen : GenDisable(w)
    \/ \E w \in 1..MaxGen : GenStatusStarting(w)
    \/ \E w \in 1..MaxGen : GenStatusInit(w)
    \/ \E w \in 1..MaxGen : GenPrimary(w)
    \/ \E w \in 1..MaxGen : GenFallback(w)
    \/ \E w \in 1..MaxGen : GenShowError(w)
    \/ \E w \in 1..MaxGen : GenDialogClosed(w)
    \/ \E w \in 1..MaxGen : GenFinally(w)

GenSpec == GenInit /\ [][GenNext]_vars

\* every started worker thread keeps running: calls return or raise, and
\* the user closes an open message box
GenFairSpec == GenSpec /\ \A w \in 1..MaxGen : WF_vars(GenStep(w))

(***************************************************************************)
(* The desktop form: the model combobox and the speaker probe              *)
(* (on_model_choice_changed, _populate_speakers_thread, _set_speakers_ui). *)
(***************************************************************************)
\* tts.speakers of a model, as the probe reads them
SpeakersOf(m) == IF m = VctkModel THEN <<"p225", "p226">> ELSE <<"child_0">>

ProbeSpecInit == TtsIdle /\ GenIdle /\ ProbeInit /\ LoadIdle

\* lines 206-226, on the UI thread: the user picks option sel
on_model_choice_changed(sel) ==
    /\ selections < MaxProbe
    /\ selections' = selections + 1
    /\ model_choice' = sel
    /\ IF sel = OptOther
       THEN /\ custom_entry' = "normal"
            /\ speaker_cb' = [values |-> <<>>, state |-> "disabled"]
            /\ speaker_var' = ""
            /\ UNCHANGED <<ppc, pmodel>>
       ELSE /\ custom_entry' = "disabled"
            /\ ppc' = Append(ppc, "status")
            /\ pmodel' = Append(pmodel, IF sel = OptChild THEN ChildModel ELSE VctkModel)
            /\ UNCHANGED <<speaker_cb, speaker_var>>
    /\ UNCHANGED after_queue
    /\ UNCHANGED <<ttsVars, guiVars, loadVars>>

\* set_status (lines 202-204) called by a probe worker: the worker's own
\* thread sets status_var
ProbeSetStatus(text) ==
    /\ status_var' = [text |-> text, by |-> "probe"]
    /\ direct' = direct \cup {"status_var"}
    /\ UNCHANGED <<form, btn_state, statuses, gpc, gargs, tb, calls, dialogs, clicks>>

\* line 230
ProbeStatus(p) ==
    /\ p \in DOMAIN ppc
    /\ ppc[p] = "status"
    /\ ProbeSetStatus("Probing model for speakers")
    /\ ppc' = [ppc EXCEPT ![p] = "probe"]
    /\ UNCHANGED <<model_choice, custom_entry, speaker_cb, speaker_var, pmodel,
                   after_queue, selections>>
    /\ UNCHANGED <<ttsVars, loadVars>>

\* lines 231-242, 245, 248: initialize the model and hand the speakers
\* found (none when the model has none, cannot be initialized or the
\* import fails) to root.after
ProbeModel(p) ==
    /\ p \in DOMAIN ppc
    /\ ppc[p] = "probe"
    /\ \E outcome \in {"speakers", "no speakers", "failed"} :
         IF outcome = "speakers"
         THEN /\ after_queue' = Append(after_queue, SpeakersOf(pmodel[p]))
              /\ ppc' = [ppc EXCEPT ![p] = "loaded"]
         ELSE /\ after_queue' = Append(after_queue, <<>>)
              /\ ppc' = [ppc EXCEPT ![p] = outcome]
    /\ UNCHANGED <<model_choice, custom_entry, speaker_cb, speaker_var, pmodel, selections>>
    /\ UNCHANGED <<ttsVars, guiVars, loadVars>>

\* lines 243, 246, 249
ProbeReport(p) ==
    /\ p \in DOMAIN ppc
    /\ ppc[p] \in {"loaded", "no speakers", "failed"}
    /\ ProbeSetStatus(IF ppc[p] = "loaded" THEN "Loaded speakers from model"
                      ELSE IF ppc[p] = "no speakers" THEN "No speakers available for this model"
                      ELSE "Speaker probe failed")
    /\ ppc' = [ppc EXCEPT ![p] = "done"]
    /\ UNCHANGED <<model_choice, custom_entry, speaker_cb, speaker_var, pmodel,
                   after_queue, selections>>
    /\ UNCHANGED <<ttsVars, loadVars>>

\* lines 251-260, on the UI thread: the oldest root.after callback runs
set_speakers_ui ==
    /\ after_queue # <<>>
    /\ LET speakers == Head(after_queue)
       IN IF speakers # <<>>
          THEN /\ speaker_cb' = [values |-> speakers, state |-> "readonly"]
               /\ speaker_var' = speakers[1]
          ELSE /\ speaker_cb' = [values |-> <<>>, state |-> "disabled"]
               /\ speaker_var' = ""
    /\ after_queue' = Tail(after_queue)
    /\ UNCHANGED <<model_choice, custom_entry, ppc, pmodel, selections>>
    /\ UNCHANGED <<ttsVars, guiVars, loadVars>>

ProbeNext ==
    \/ \E sel \in model_options : on_model_choice_changed(sel)
    \/ \E p \in 1..MaxProbe : ProbeStatus(p)
    \/ \E p \in 1..MaxProbe : ProbeModel(p)
    \/ \E p \in 1..MaxProbe : ProbeReport(p)
    \/ set_speakers_ui

ProbeSpec == ProbeSpecInit /\ [][ProbeNext]_vars

(***************************************************************************)
(* load_speaker_genders, CTTS.py lines 12-34, and the look-up of lines     *)
(* 267-273.                                                                *)
(***************************************************************************)
LoadInit ==
    /\ TtsIdle /\ GenIdle /\ ProbeInit
    /\ lpc = "open"
    /\ file \in Files
    /\ li = 0
    /\ genders = <<>>
    /\ lfailed = "none"
    /\ lresult = "none"
    /\ genders_map = <<>>
    /\ looked = NoLookup

\* line 16: open(path); FileNotFoundError and any other exception are passed
OpenFile ==
    /\ lpc = "open"
    /\ IF file.mode = "ok"
       THEN lpc' = "read" /\ UNCHANGED lfailed
       ELSE /\ lfailed' = (IF file.mode = "missing" THEN "missing" ELSE "open")
            /\ lpc' = "return"
    /\ UNCHANGED <<file, li, genders, lresult, genders_map, looked>>
    /\ UNCHANGED <<ttsVars, guiVars, probeVars>>

\* line 22: i == 0 and line.lower().startswith("id,")
IsHeader(i, line) == i = 0 /\ IsPrefix(<<"i","d",",">>, Lower(line))

\* lines 18-29: one iteration of the loop over the lines of the file
ReadLine ==
    /\ lpc = "read"
    /\ li < Len(file.lines)
    /\ LET i == li
           line == Strip(file.lines[li + 1].text \o <<"\n">>)
           parts == Split(line, ",")
       IN IF line = <<>> \/ IsHeader(i, line) \/ Len(parts) < 2
          THEN UNCHANGED genders
          ELSE LET sid == Strip(parts[1])
                   g == Strip(parts[2])
               IN IF sid # <<>>
                  THEN genders' = (Upper(sid) :> g) @@ genders
                  ELSE UNCHANGED genders
    /\ li' = li + 1
    /\ UNCHANGED <<lpc, file, lfailed, lresult, genders_map, looked>>
    /\ UNCHANGED <<ttsVars, guiVars, probeVars>>

\* the iterator is exhausted and the with block is left
EndOfFile ==
    /\ lpc = "read"
    /\ li = Len(file.lines)
    /\ lpc' = "return"
    /\ UNCHANGED <<file, li, genders, lfailed, lresult, genders_map, looked>>
    /\ UNCHANGED <<ttsVars, guiVars, probeVars>>

\* lines 32-33: reading or decoding the next chunk raises; the exception
\* is passed with the table as filled so far
ReadFails ==
    /\ lpc = "read"
    /\ lfailed' = "read"
    /\ lpc' = "return"
    /\ UNCHANGED <<file, li, genders, lresult, genders_map, looked>>
    /\ UNCHANGED <<ttsVars, guiVars, probeVars>>

\* line 34, and line 267 taking the result
ReturnGenders ==
    /\ lpc = "return"
    /\ lresult' = "returned"
    /\ genders_map' = genders
    /\ lpc' = "lookup"
    /\ UNCHANGED <<file, li, genders, lfailed, looked>>
    /\ UNCHANGED <<ttsVars, guiVars, probeVars>>

\* a key taken as the speaker name is spelled
LookupKeyAsSpelled(sp) == Strip(sp)

\* line 271: key = sp.strip().upper()
LookupKey(sp) == Upper(Strip(sp))

\* line 272: genders_map.get(key, "unknown")
Get(map, key) == IF key \in DOMAIN map THEN map[key] ELSE L_unknown

\* lines 270-273: the look-up for one speaker of the model
LookupSpeaker(sp) ==
    /\ lpc = "lookup"
    /\ looked' = [sp |-> sp, g |-> Get(genders_map, LookupKey(sp.text))]
    /\ UNCHANGED <<lpc, file, li, genders, lfailed, lresult, genders_map>>
    /\ UNCHANGED <<ttsVars, guiVars, probeVars>>

LoadNext ==
    \/ OpenFile
    \/ ReadLine
    \/ EndOfFile
    \/ ReadFails
    \/ ReturnGenders
    \/ \E sp \in SpeakerNames : LookupSpeaker(sp)

LoadSpec == LoadInit /\ [][LoadNext]_vars

(***************************************************************************)
(* Claims about the Generate button (checked under GenSpec, the liveness   *)
(* claim under GenFairSpec).                                               *)
(***************************************************************************)
\* the worker has passed the point where the fallback is decided
FallbackDecided(w) == gpc[w] \in {"showerror", "dialog_open", "finally", "done"}

C8_OneInFlight == Cardinality(InFlight) <= 1

\* C9: every started generation ends, and whenever no generation is in
\* flight the Generate button is enabled.
C9_ReturnsToReady ==
    /\ [](InFlight = {} => btn_state = "normal")
    /\ \A w \in 1..MaxGen : (w <= Len(gpc)) ~> (w <= Len(gpc) /\ gpc[w] = "done")

\* both attempts failed, the box was closed, the button is enabled again
C9_Witness ==
    /\ Workers # {}
    /\ InFlight = {}
    /\ \E w \in Workers : Len(calls[w]) = 2 /\ calls[w][2].raised
    /\ \E d \in 1..Len(dialogs) : dialogs[d].title = "Generation failed"
    /\ btn_state = "normal"

\* the message boxes worker w has opened
DialogsOf(w) == {d \in 1..Len(dialogs) : dialogs[d].by = w}

\* C11: when both calls of a run raised, the run sets no "Done" status,
\* opens at most one message box, and once past line 386 has opened exactly
\* one, which carries the traceback of the primary attempt and the
\* traceback of the fallback attempt.
C11_CombinedFailureOnce ==
    \A w \in Workers :
        (Len(calls[w]) = 2 /\ calls[w][1].raised /\ calls[w][2].raised) =>
            /\ statuses[w] \cap {"Done. Saved to", "Done with fallback. Saved to"} = {}
            /\ Cardinality(DialogsOf(w)) <= 1
            /\ gpc[w] \in {"dialog_open", "finally", "done"} =>
                  /\ Cardinality(DialogsOf(w)) = 1
                  /\ \A d \in DialogsOf(w) :
                        /\ dialogs[d].title = "Generation failed"
                        /\ dialogs[d].detail =
                              <<[call |-> "primary", model_name |-> calls[w][1].args.model_name],
                                [call |-> "fallback", model_name |-> calls[w][2].args.model_name]>>

\* a run on a custom model whose two attempts raised, finished
C11_Witness ==
    \E w \in Workers :
        /\ gpc[w] = "done"
        /\ Len(calls[w]) = 2 /\ calls[w][1].raised /\ calls[w][2].raised
        /\ calls[w][1].args.model_name = "my/model"
        /\ Cardinality(DialogsOf(w)) = 1
        /\ "All generation attempts failed" \in statuses[w]

(***************************************************************************)
(* Claims about the worker threads and the UI (checked under ProbeSpec).   *)
(***************************************************************************)
\* C10: no worker thread writes a widget or a Tk variable itself.
C10_NoDirectUiWrite == direct = {}

\* every probe worker has finished and every callback handed to root.after
\* has run
ProbesSettled ==
    /\ \A p \in DOMAIN ppc : ppc[p] = "done"
    /\ after_queue = <<>>

\* C16: once the probes have settled after at least one selection, the
\* speaker list is empty and disabled when the selection is "Other (enter
\* manually)", and otherwise holds the speakers of the selected model, or
\* nothing when its probe found none.
C16_LatestSelectionShown ==
    (selections > 0 /\ ProbesSettled) =>
        IF model_choice = OptOther
        THEN speaker_cb = [values |-> <<>>, state |-> "disabled"]
        ELSE speaker_cb.values \in
               {<<>>, SpeakersOf(IF model_choice = OptChild THEN ChildModel ELSE VctkModel)}

(***************************************************************************)
(* Further claims about create_emotional_tts (checked under Spec).         *)
(***************************************************************************)
\* C14: a finished call has returned exactly when sf.write has written the
\* file; what it returns is the output_file argument, which is also the
\* path written; a call that model initialization, synthesis or loading
\* the synthesized audio has failed has raised, and a call that raised has
\* returned no path and written nothing.
C14_ReturnsPathIffWritten ==
    /\ pc = "done" => /\ result \in {"returned", "raised"}
                      /\ result = "returned" <=> written.done
    /\ result = "returned" => /\ pc = "done"
                              /\ retval = output_file
                              /\ written.path = output_file
    /\ raisedBy \in {"model", "synth", "load"} => result = "raised"
    /\ result = "raised" => retval = "" /\ ~written.done

\* a call given a path other than the default has returned
C14_Witness ==
    /\ pc = "done"
    /\ result = "returned"
    /\ output_file = "out.wav"
    /\ retval = "out.wav"
    /\ written.done

\* C15: a call repeated with another speaker_gender, with other content
\* in the speaker-gender table, or both, while the libraries answer as they
\* did the first time, applies the same DSP operations in the same order,
\* hands sf.write the same waveform and path, and ends as the first call
\* did with the same return value.
C15_GenderAdvisory ==
    run = 2 =>
        /\ IsPrefix(ops, first.ops)
        /\ written.done => written = first.written
        /\ pc = "done" => /\ ops = first.ops
                          /\ written = first.written
                          /\ result = first.result
                          /\ retval = first.retval

\* a call with pitch shift, time stretch and gain that returned, repeated
\* to its end with another gender and another table; the log line differs
C15_Witness ==
    /\ run = 2
    /\ pc = "done"
    /\ result = "returned"
    /\ speaker_gender # first.speaker_gender
    /\ genders_map # first.table
    /\ logged = speaker_gender
    /\ Len(ops) = 3

\* the effect chain of the call has run to its end
ChainRun ==
    \/ pc \in {"clamp", "write", "cleanup"}
    \/ pc = "done" /\ raisedBy \in {"none", "write"}

\* C17: time_stretch is called with a positive rate only; in a branch with
\* a speed factor, when factor x global_speed is zero or negative,
\* time_stretch is not called at all, the buffer keeps the length it was
\* loaded with, pitch_shift is still called with the semitones of the
\* branch, and once the chain has run the operations applied are that pitch
\* shift (unless the library call itself raised) and the gain of the branch.
C17_NonPositiveRateSkipped ==
    LET b == Branch(emotion)
        rate == Rate(b, global_speed)
        pitch == [op |-> "pitch_shift", arg |-> NSteps(b)]
        gain == [op |-> "gain", arg |-> Gain(b)]
    IN /\ \A i \in 1..Len(ops) : ops[i].op = "time_stretch" => ops[i].arg > 0
       /\ (HasStretch(b) /\ "time_stretch" \in failed) => rate > 0
       /\ (HasStretch(b) /\ rate <= 0) =>
             /\ ~Stretched
             /\ "time_stretch" \notin failed
             /\ Len(audio) = Len(loaded)
             /\ written.done => Len(written.data) = Len(loaded)
             /\ pc \in {"stretch", "gain"} =>
                   (ops = <<pitch>> \/ "pitch_shift" \in failed)
             /\ ChainRun =>
                   ops = (IF "pitch_shift" \in failed THEN <<gain>> ELSE <<pitch, gain>>)

\* an excited call at speed -1.0 on a buffer longer than one second: the
\* rate is -1.3, the file is written with pitch shift and gain only
C17_Witness ==
    /\ pc = "done" /\ result = "returned"
    /\ Branch(emotion) = "excited"
    /\ global_speed < 0
    /\ Len(loaded) > sr
    /\ ops = <<[op |-> "pitch_shift", arg |-> 3], [op |-> "gain", arg |-> 115]>>
    /\ Len(written.data) = Len(loaded)

(***************************************************************************)
(* Claims about load_speaker_genders (checked under LoadSpec).             *)
(***************************************************************************)
\* the records of a file, and the table they stand for: each id in upper
\* case with the gender of its last record
Records(f) == {k \in 1..Len(f.lines) : f.lines[k].kind = "record"}
LastRecord(f, id) ==
    CHOOSE k \in Records(f) :
        /\ f.lines[k].id = id
        /\ \A j \in Records(f) : f.lines[j].id = id => j <= k
RecordedIds(f) == {f.lines[k].id : k \in Records(f)}
Recorded(f) == [id \in RecordedIds(f) |-> f.lines[LastRecord(f, id)].gender]

\* a header, when there is one, is the first line of the file
HeaderFirst(f) == \A k \in 2..Len(f.lines) : f.lines[k].kind # "header"

\* C12: for a file read to its end whose header, if any, is its first line,
\* the table returned maps exactly the recorded ids, in upper case, to
\* their genders (the header adds no entry), and a look-up of a speaker
\* name in any letter case gives the recorded gender of its id, or
\* "unknown" when the id is not recorded.
C12_LookupNormalized ==
    (lresult = "returned" /\ lfailed = "none" /\ HeaderFirst(file)) =>
        /\ DOMAIN genders_map = RecordedIds(file)
        /\ \A id \in RecordedIds(file) : genders_map[id] = Recorded(file)[id]
        /\ looked # NoLookup =>
              looked.g = (IF looked.sp.id \in RecordedIds(file)
                          THEN Recorded(file)[looked.sp.id]
                          ELSE L_unknown)

\* a file with a header in upper case and a record for P225, looked up as
\* "p225"
C12_Witness ==
    /\ lresult = "returned" /\ lfailed = "none"
    /\ Len(file.lines) >= 2
    /\ file.lines[1].kind = "header"
    /\ file.lines[1].text[1] = "I"
    /\ HeaderFirst(file)
    /\ file.lines[2].text = <<"P","2","2","5",",","F">>
    /\ looked.sp.text = <<"p","2","2","5">>
    /\ looked.g = G_F

\* C13: the function never raises, and after a missing file, a failed open
\* or a failed read the table it returns is empty.
C13_EmptyOnFailure ==
    /\ lresult # "raised"
    /\ (lresult = "returned" /\ lfailed # "none") => DOMAIN genders_map = {}
====
